---- MODULE Spec2Model ----
(***************************************************************************)
(* Model of the presence and room-message relay of src/server.ts (the      *)
(* third, session-aware SocketIOServer class, lines 1778-2584) together    *)
(* with the Repository it persists through (src/unnamed/part_002).         *)
(*                                                                         *)
(* One action is one run of an event handler between two turns of the      *)
(* event loop.  The asynchronous "chat" pipeline is cut at its awaits:     *)
(* every await of a repository call is a separate action.                  *)
(*                                                                         *)
(* Wall-clock values (new Date().toISOString(): lastSeen, timestamp) are   *)
(* not modelled; sent_at, which the client supplies, is.                   *)
(***************************************************************************)
EXTENDS Integers, Sequences, FiniteSets, TLC

\* ------------------------------------------------------------------ bounds
MaxSockets == 3      \* transport connections accepted during a run
MaxRelaySockets == 2 \* the same, in the runs of the relay pipeline
MaxUpdateSockets == 2 \* the same, in the runs of the presence updates
MaxSummarySockets == 1 \* the same, in the runs of the summary pipeline
MaxChats == 2        \* "chat" room_messages of a run of the summary pipeline
MaxRelayChats == 1   \* the same, in the runs of the relay pipeline
MaxTime == 2         \* client-supplied sent timestamps are 1..MaxTime
MaxUpdates == 1      \* status_update and user_info_update events handled
MaxEventSockets == 2 \* connections in the runs of the stateless events
MaxGatewaySockets == 2 \* connections in the runs of the handshake
MaxMemberSockets == 2  \* connections in the runs of rooms with presence
MaxMemberUpdates == 1  \* presence updates in those runs
MaxPrivateSockets == 3 \* connections in the runs of private messages
MaxWindowSockets == 2  \* connections in the runs of joins during a chat
MaxWindowChats == 1    \* "chat" messages in those runs
MaxTimers == 2         \* heartbeat timers set at a time
MaxTimerSockets == 2   \* connections in the runs of the heartbeat timer

\* ------------------------------------------------------------- input sets
Undefined == "undefined"                 \* JavaScript undefined / absent
Usernames == {"alice"}            \* handshake.auth.username
HandshakeNames == Usernames \cup {Undefined}
CustomStatuses == {"brb"}
RoomNames == {"general"}
Statuses == {"online", "away", "busy", "offline"}   \* UserInfo.status
StatusInputs == {"online", "away", "busy"}          \* status_update data.status
InfoStatusInputs == Statuses \cup {Undefined}       \* user_info_update data.status
CustomStatusInputs == CustomStatuses \cup {Undefined, ""}   \* data.customStatus
\* user_info_update payloads: a Partial<UserInfo> may name any field
\* (the presence fields, or the identity fields)
InfoUpdates ==
  [status : InfoStatusInputs, customStatus : CustomStatusInputs,
   username : {Undefined}, socketId : {Undefined}]
  \cup [status : {Undefined}, customStatus : {Undefined},
        username : {Undefined, "mallory"}, socketId : {Undefined, "s0"}]
Contents == {"hi"}
RoomIds == {"general"}                   \* message.roomId, chatrooms.room_id
SenderIds == {"id1"}                     \* message.senderId
NoDoc == [absent |-> TRUE]               \* findOne found no document
Null == [t |-> "null"]                   \* JavaScript null
Missing == [t |-> "undefined"]           \* the event was sent without payload
NoPayload == {Null, Missing}

\* JavaScript values a client may send as data.message
JsString(v) == [t |-> "string", v |-> v]
JsObject(v) == [t |-> "object", v |-> v]
PlainMessages == {JsString(c) : c \in Contents}
OtherActions == {JsObject([action |-> "ping", content |-> c]) : c \in Contents}
\* the shape RoomMessageData declares: {action, content}
DeclaredChats == {JsObject([action |-> "chat", content |-> c]) : c \in Contents}
\* the shape saveMessageToMongoDB reads
FullChats ==
  {JsObject([action |-> "chat", content |-> c, roomId |-> r, senderId |-> s,
             data |-> [message |-> c, timespan |-> t, type |-> "text"]]) :
     c \in Contents, r \in RoomIds, s \in SenderIds, t \in 1..MaxTime}
RoomMessages == PlainMessages \cup OtherActions \cup DeclaredChats \cup FullChats
                  \cup {Null}

Sid(n) == "s" \o ToString(n)             \* socket.id of the n-th connection
SocketIds == {Sid(n) : n \in 1..MaxSockets}

Truthy(v) == v # Undefined /\ v # ""

\* `User ${socket.id.slice(0, 6)}`
DefaultName(c) == "User " \o c

VARIABLES
  started,           \* start() has run: repositories set, server listening
  exited,            \* the Node.js process has terminated
  nextId,            \* number of the next transport connection
  connected,         \* socket ids connected at the transport (io.sockets)
  rooms,             \* socket id -> socket.rooms (own id room included)
  onlineUsers,       \* Map socket id -> UserInfo
  userSessions,      \* Map username -> UserSession, in insertion order
  socketToUsername,  \* Map socket id -> username
  handshake,         \* socket id -> socket.handshake.auth of the connection
  nUpdates,          \* status_update / user_info_update events handled
  repos,             \* messageRepo, roomRepo and userRepo are set
  tasks,             \* handleRoomMessage calls suspended at an await, in arrival order
  nChats,            \* room_message handlers that reached an await so far
  dbMessages,        \* the chatmessages collection, in insertion order
  dbRooms,           \* the chatrooms collection: room_id -> document or NoDoc
  timers,            \* the interval timers of sendHeartbeat that are set
  heartbeatInterval, \* this.heartbeatInterval: a timer of timers, or NoTimer
  out,               \* events emitted by the handler that ran last
  last               \* the handler that ran last, and what it saw on entry

\* ------------------------------------------------------- Map / Set helpers
Has(m, k) == k \in DOMAIN m
MapSet(m, k, v) == [x \in DOMAIN m \cup {k} |-> IF x = k THEN v ELSE m[x]]
MapDelete(m, k) == [x \in DOMAIN m \ {k} |-> m[x]]
MapGet(m, k) == IF Has(m, k) THEN m[k] ELSE Undefined

SeqRange(s) == {s[i] : i \in 1..Len(s)}
SeqRemove(s, e) == SelectSeq(s, LAMBDA x : x # e)
\* Set.add: appends unless already present (insertion order is kept)
SetAdd(s, e) == IF e \in SeqRange(s) THEN s ELSE Append(s, e)

SessionNames(sessions) == {sessions[i].username : i \in 1..Len(sessions)}
SessionIdx(sessions, u) ==
  IF u \in SessionNames(sessions)
  THEN CHOOSE i \in 1..Len(sessions) : sessions[i].username = u
  ELSE 0

\* The server's in-memory state as one record, so that a handler is an
\* operator from state to state and handlers can call one another.
St == [connected |-> connected, rooms |-> rooms, onlineUsers |-> onlineUsers,
       userSessions |-> userSessions, socketToUsername |-> socketToUsername,
       out |-> <<>>, threw |-> FALSE]

\* The handler throws: nothing after the throwing expression runs
Throw(st) == [st EXCEPT !.threw = TRUE]

\* socket.emit / io.emit / socket.broadcast.emit / io.to(room).emit:
\* `to` is the set of sockets the adapter delivers to.
Emit(st, ev, to, data) ==
  [st EXCEPT !.out = Append(@, [ev |-> ev, to |-> to, data |-> data])]

Everyone(st) == st.connected                      \* io.emit
Others(st, c) == st.connected \ {c}               \* socket.broadcast.emit
InRoom(st, room) == {s \in st.connected : room \in st.rooms[s]}   \* io.to(room)
OthersInRoom(st, c, room) == InRoom(st, room) \ {c}            \* socket.to(room)

\* ------------------------------------------------------ Session Registry
\* Fault: an existing session is replaced instead of extended
addUserSession_overwrite(sessions, username, socketId, userInfo) ==
  LET i == SessionIdx(sessions, username)
      fresh == [username |-> username, socketIds |-> <<socketId>>,
                status |-> userInfo.status,
                customStatus |-> userInfo.customStatus] IN
  IF i = 0 THEN Append(sessions, fresh) ELSE [sessions EXCEPT ![i] = fresh]

\* Fault: the session takes the status of the connection that was added
addUserSession_resetStatus(sessions, username, socketId, userInfo) ==
  LET i == SessionIdx(sessions, username) IN
  IF i = 0
  THEN Append(sessions, [username |-> username,
                         socketIds |-> <<socketId>>,
                         status |-> userInfo.status,
                         customStatus |-> userInfo.customStatus])
  ELSE [sessions EXCEPT
          ![i].socketIds = SetAdd(@, socketId),
          ![i].status = userInfo.status,
          ![i].customStatus = IF Truthy(userInfo.customStatus)
                              THEN userInfo.customStatus ELSE @]

addUserSession(sessions, username, socketId, userInfo) ==
  LET i == SessionIdx(sessions, username) IN
  IF i = 0
  THEN Append(sessions, [username |-> username,
                         socketIds |-> <<socketId>>,
                         status |-> userInfo.status,
                         customStatus |-> userInfo.customStatus])
  ELSE [sessions EXCEPT
          ![i].socketIds = SetAdd(@, socketId),
          ![i].customStatus = IF Truthy(userInfo.customStatus)
                              THEN userInfo.customStatus ELSE @]

\* Fault: the session of a user whose last connection went is kept
removeSocketFromSession_keepEmpty(sessions, s2u, socketId) ==
  LET username == MapGet(s2u, socketId)
      i == SessionIdx(sessions, username) IN
  IF ~Truthy(username) \/ i = 0 THEN [sessions |-> sessions, ret |-> FALSE]
  ELSE LET ids == SeqRemove(sessions[i].socketIds, socketId) IN
       [sessions |-> [sessions EXCEPT ![i].socketIds = ids],
        ret |-> Len(ids) = 0]

\* Fault: every removal reports the user as fully offline
removeSocketFromSession_alwaysTrue(sessions, s2u, socketId) ==
  LET username == MapGet(s2u, socketId)
      i == SessionIdx(sessions, username) IN
  IF ~Truthy(username) \/ i = 0 THEN [sessions |-> sessions, ret |-> FALSE]
  ELSE LET ids == SeqRemove(sessions[i].socketIds, socketId) IN
       IF Len(ids) = 0
       THEN [sessions |-> SelectSeq(sessions, LAMBDA x : x.username # username),
             ret |-> TRUE]
       ELSE [sessions |-> [sessions EXCEPT ![i].socketIds = ids],
             ret |-> TRUE]

\* Fault: an unknown connection id is reported as a user gone offline
removeSocketFromSession_unknownTrue(sessions, s2u, socketId) ==
  LET username == MapGet(s2u, socketId)
      i == SessionIdx(sessions, username) IN
  IF ~Truthy(username) \/ i = 0 THEN [sessions |-> sessions, ret |-> TRUE]
  ELSE LET ids == SeqRemove(sessions[i].socketIds, socketId) IN
       IF Len(ids) = 0
       THEN [sessions |-> SelectSeq(sessions, LAMBDA x : x.username # username),
             ret |-> TRUE]
       ELSE [sessions |-> [sessions EXCEPT ![i].socketIds = ids],
             ret |-> FALSE]

\* Result of removeSocketFromSession: the session table after the call and
\* the boolean it returns.
removeSocketFromSession(sessions, s2u, socketId) ==
  LET username == MapGet(s2u, socketId)
      i == SessionIdx(sessions, username) IN
  IF ~Truthy(username) THEN [sessions |-> sessions, ret |-> FALSE]
  ELSE IF i = 0 THEN [sessions |-> sessions, ret |-> FALSE]
  ELSE LET ids == SeqRemove(sessions[i].socketIds, socketId) IN
       IF Len(ids) = 0
       THEN [sessions |-> SelectSeq(sessions, LAMBDA x : x.username # username),
             ret |-> TRUE]
       ELSE [sessions |-> [sessions EXCEPT ![i].socketIds = ids],
             ret |-> FALSE]

\* Fault: one record per connection instead of one per session
RECURSIVE getUniqueUserList_perSocket(_)
getUniqueUserList_perSocket(sessions) ==
  IF Len(sessions) = 0 THEN <<>>
  ELSE [j \in 1..Len(sessions[1].socketIds) |->
          [socketId |-> sessions[1].socketIds[j],
           username |-> sessions[1].username,
           status |-> sessions[1].status,
           customStatus |-> sessions[1].customStatus]]
       \o getUniqueUserList_perSocket(Tail(sessions))

\* Fault: the connection added last represents the session
getUniqueUserList_lastSocket(sessions) ==
  [i \in 1..Len(sessions) |->
     [socketId |-> IF Len(sessions[i].socketIds) > 0
                   THEN sessions[i].socketIds[Len(sessions[i].socketIds)]
                   ELSE Undefined,
      username |-> sessions[i].username,
      status |-> sessions[i].status,
      customStatus |-> sessions[i].customStatus]]

getUniqueUserList(sessions) ==
  [i \in 1..Len(sessions) |->
     [socketId |-> IF Len(sessions[i].socketIds) > 0
                   THEN sessions[i].socketIds[1] ELSE Undefined,
      username |-> sessions[i].username,
      status |-> sessions[i].status,
      customStatus |-> sessions[i].customStatus]]

\* Fault: the welcome is sent to every connection
sendWelcome_toAll(st, c) == Emit(st, "welcome", Everyone(st), [socketId |-> c])

sendWelcome(st, c) == Emit(st, "welcome", {c}, [socketId |-> c])

\* auth.username || auth.userInfo.username || `User ${id.slice(0,6)}`
HandshakeUsername(auth, c) ==
  IF Truthy(auth.username) THEN auth.username
  ELSE IF Truthy(auth.userInfoUsername) THEN auth.userInfoUsername
  ELSE DefaultName(c)

\* Fault: a connection without a token is refused (next(new Error(...)))
setupMiddleware_requireToken(auth) == Truthy(auth.token)

\* The io.use middleware: reads the token, logs it and calls next()
\* without an error.  TRUE: the connection is let through.
setupMiddleware(auth) == TRUE

\* Fault: a new connection is put into the rooms of the user's other connections
handleConnection_joinUserRooms(st0, c, auth) ==
  LET st1 == sendWelcome(st0, c)
      username == HandshakeUsername(auth, c)
      userInfo == [socketId |-> c, username |-> username, status |-> "online",
                   customStatus |-> auth.customStatus]
      mates == {s \in DOMAIN st0.socketToUsername :
                  st0.socketToUsername[s] = username}
      st2 == [st1 EXCEPT
                !.onlineUsers = MapSet(@, c, userInfo),
                !.socketToUsername = MapSet(@, c, username),
                !.userSessions = addUserSession(@, username, c, userInfo),
                !.rooms[c] = @ \cup UNION {st0.rooms[s] \ {s} : s \in mates}]
      st3 == Emit(st2, "user_list", {c},
                  [users |-> getUniqueUserList(st2.userSessions)])
      i == SessionIdx(st3.userSessions, username)
      st4 == IF i # 0 /\ Len(st3.userSessions[i].socketIds) = 1
             THEN Emit(st3, "user_status_changed", Others(st3, c),
                       [username |-> username, socketId |-> c,
                        status |-> "online",
                        customStatus |-> userInfo.customStatus])
             ELSE st3
  IN Emit(st4, "user_list", Everyone(st4),
          [users |-> getUniqueUserList(st4.userSessions)])

handleConnection(st0, c, auth) ==
  LET st1 == sendWelcome(st0, c)
      username == HandshakeUsername(auth, c)
      userInfo == [socketId |-> c, username |-> username, status |-> "online",
                   customStatus |-> auth.customStatus]
      st2 == [st1 EXCEPT
                !.onlineUsers = MapSet(@, c, userInfo),
                !.socketToUsername = MapSet(@, c, username),
                !.userSessions = addUserSession(@, username, c, userInfo)]
      st3 == Emit(st2, "user_list", {c},
                  [users |-> getUniqueUserList(st2.userSessions)])
      i == SessionIdx(st3.userSessions, username)
      st4 == IF i # 0 /\ Len(st3.userSessions[i].socketIds) = 1
             THEN Emit(st3, "user_status_changed", Others(st3, c),
                       [username |-> username, socketId |-> c,
                        status |-> "online",
                        customStatus |-> userInfo.customStatus])
             ELSE st3
  IN Emit(st4, "user_list", Everyone(st4),
          [users |-> getUniqueUserList(st4.userSessions)])

\* ------------------------------------------------------- Room Membership
\* Fault: the joiner is notified of its own arrival (io.to instead of socket.to)
handleJoinRoom_notifyAll(st0, c, roomName) ==
  LET st1 == [st0 EXCEPT !.rooms[c] = @ \cup {roomName}]
      username == MapGet(st1.socketToUsername, c)
      st2 == Emit(st1, "user_joined", InRoom(st1, roomName),
                  [socketId |-> c, username |-> username, room |-> roomName])
  IN Emit(st2, "joined_room", {c}, [room |-> roomName])

\* Fault: joining a room marks the connection as online
handleJoinRoom_markOnline(st0, c, roomName) ==
  LET st1 == [st0 EXCEPT !.rooms[c] = @ \cup {roomName}]
      username == MapGet(st1.socketToUsername, c)
      st2 == Emit(st1, "user_joined", OthersInRoom(st1, c, roomName),
                  [socketId |-> c, username |-> username, room |-> roomName])
      st3 == Emit(st2, "joined_room", {c}, [room |-> roomName])
  IN IF Has(st3.onlineUsers, c)
     THEN [st3 EXCEPT !.onlineUsers[c].status = "online"]
     ELSE st3

handleJoinRoom(st0, c, roomName) ==
  LET st1 == [st0 EXCEPT !.rooms[c] = @ \cup {roomName}]
      username == MapGet(st1.socketToUsername, c)
      st2 == Emit(st1, "user_joined", OthersInRoom(st1, c, roomName),
                  [socketId |-> c, username |-> username, room |-> roomName])
  IN Emit(st2, "joined_room", {c}, [room |-> roomName])

\* rooms.forEach over Array.from(socket.rooms), own-id room skipped
RECURSIVE LeaveRooms(_, _, _, _)
LeaveRooms(st, c, username, todo) ==
  IF todo = {} THEN st
  ELSE LET room == CHOOSE r \in todo : TRUE
           st1 == [st EXCEPT !.rooms[c] = @ \ {room}]
           st2 == Emit(st1, "user_left_room", OthersInRoom(st1, c, room),
                       [socketId |-> c, username |-> username, room |-> room])
       IN LeaveRooms(st2, c, username, todo \ {room})

cleanupUserFromRooms(st, c) ==
  LeaveRooms(st, c, MapGet(st.socketToUsername, c), st.rooms[c] \ {c})

\* --------------------------------------------------------------- heartbeat
\* Map.size
MapSize(m) == Cardinality(DOMAIN m)

\* getOnlineUserCount(): userSessions.size
getOnlineUserCount(st) == Len(st.userSessions)

\* Fault: connections are counted where users should be
sendHeartbeat_countSockets(st) ==
  Emit(st, "heartbeat", Everyone(st),
       [connectedClients |-> MapSize(st.onlineUsers),
        totalSockets |-> MapSize(st.onlineUsers)])

\* Fault: the tick closes a connection it finds
sendHeartbeat_closeOne(st) ==
  LET st1 == Emit(st, "heartbeat", Everyone(st),
                  [connectedClients |-> getOnlineUserCount(st),
                   totalSockets |-> MapSize(st.onlineUsers)]) IN
  IF st1.connected = {} THEN st1
  ELSE [st1 EXCEPT !.connected = @ \ {CHOOSE c \in @ : TRUE}]

sendHeartbeat(st) ==
  Emit(st, "heartbeat", Everyone(st),
       [connectedClients |-> getOnlineUserCount(st),
        totalSockets |-> MapSize(st.onlineUsers)])

\* ------------------------------------------------------ stateless events
\* `Echo: ${data.toString()}`: a TypeError when data is null or undefined
handleMessage(st, c, data) ==
  IF data \in NoPayload THEN Throw(st)
  ELSE Emit(st, "echo", {c}, [original |-> data])

\* const {targetSocketId, message} = data: a TypeError on null or undefined;
\* socket.to(targetSocketId) is the room named by the target's socket id
handlePrivateMessage(st, c, data) ==
  IF data \in NoPayload THEN Throw(st)
  ELSE Emit(st, "private_message", OthersInRoom(st, c, data.v.targetSocketId),
            [from |-> c, fromUsername |-> MapGet(st.socketToUsername, c),
             message |-> data.v.message])

\* data.fileName: a TypeError on null or undefined, undefined on {}
handleFileShare(st, c, data) ==
  IF data \in NoPayload THEN Throw(st)
  ELSE Emit(st, "file_received", Others(st, c),
            [from |-> c, fromUsername |-> MapGet(st.socketToUsername, c),
             file |-> data.v])

\* ------------------------------------------------- presence event handlers
\* Fault: the status is kept per connection, the shared session is not updated
handleStatusUpdate_perConnection(st, c, data) ==
  LET username == MapGet(st.socketToUsername, c)
      i == SessionIdx(st.userSessions, username) IN
  IF ~Truthy(username) \/ i = 0 THEN st
  ELSE
    LET Cs(old) == IF Truthy(data.customStatus) THEN data.customStatus ELSE old
        st2 == IF Has(st.onlineUsers, c)
               THEN [st EXCEPT !.onlineUsers[c].status = data.status,
                               !.onlineUsers[c].customStatus = Cs(@)]
               ELSE st
        st3 == Emit(st2, "user_status_changed", Everyone(st2),
                    [username |-> username, socketId |-> c,
                     status |-> data.status,
                     customStatus |-> data.customStatus])
    IN Emit(st3, "user_list", Everyone(st3),
            [users |-> getUniqueUserList(st3.userSessions)])

\* Fault: the list is broadcast even when the lookup misses
handleStatusUpdate_broadcastOnMiss(st, c, data) ==
  LET username == MapGet(st.socketToUsername, c)
      i == SessionIdx(st.userSessions, username) IN
  IF ~Truthy(username) \/ i = 0
  THEN Emit(st, "user_list", Everyone(st),
            [users |-> getUniqueUserList(st.userSessions)])
  ELSE
    LET Cs(old) == IF Truthy(data.customStatus) THEN data.customStatus ELSE old
        st1 == [st EXCEPT
                  !.userSessions[i].status = data.status,
                  !.userSessions[i].customStatus = Cs(@)]
        st2 == IF Has(st1.onlineUsers, c)
               THEN [st1 EXCEPT !.onlineUsers[c].status = data.status,
                                !.onlineUsers[c].customStatus = Cs(@)]
               ELSE st1
        st3 == Emit(st2, "user_status_changed", Everyone(st2),
                    [username |-> username, socketId |-> c,
                     status |-> data.status,
                     customStatus |-> data.customStatus])
    IN Emit(st3, "user_list", Everyone(st3),
            [users |-> getUniqueUserList(st3.userSessions)])

handleStatusUpdate(st, c, data) ==
  LET username == MapGet(st.socketToUsername, c)
      i == SessionIdx(st.userSessions, username) IN
  IF ~Truthy(username) THEN st
  ELSE IF i = 0 THEN st
  ELSE IF data \in NoPayload THEN Throw(st)     \* data.status: TypeError
  ELSE
    LET Cs(old) == IF Truthy(data.customStatus) THEN data.customStatus ELSE old
        st1 == [st EXCEPT
                  !.userSessions[i].status = data.status,
                  !.userSessions[i].customStatus = Cs(@)]
        st2 == IF Has(st1.onlineUsers, c)
               THEN [st1 EXCEPT !.onlineUsers[c].status = data.status,
                                !.onlineUsers[c].customStatus = Cs(@)]
               ELSE st1
        st3 == Emit(st2, "user_status_changed", Everyone(st2),
                    [username |-> username, socketId |-> c,
                     status |-> data.status,
                     customStatus |-> data.customStatus])
    IN Emit(st3, "user_list", Everyone(st3),
            [users |-> getUniqueUserList(st3.userSessions)])

\* Object.assign(user, {...data}): every field the payload carries is copied
AssignUserInfo(user, data) ==
  [user EXCEPT
     !.customStatus = IF data.customStatus # Undefined THEN data.customStatus ELSE @,
     !.status = IF data.status # Undefined THEN data.status ELSE @,
     !.username = IF data.username # Undefined THEN data.username ELSE @,
     !.socketId = IF data.socketId # Undefined THEN data.socketId ELSE @]

\* Fault: the identity fields of the payload are not overridden
handleUserInfoUpdate_trustPayload(st, c, data) ==
  LET username == MapGet(st.socketToUsername, c)
      i == SessionIdx(st.userSessions, username) IN
  IF ~Truthy(username) THEN st
  ELSE IF i = 0 \/ ~Has(st.onlineUsers, c) THEN st
  ELSE
    LET st1 == [st EXCEPT
                  !.userSessions[i].customStatus =
                     IF data.customStatus # Undefined THEN data.customStatus ELSE @,
                  !.userSessions[i].status =
                     IF Truthy(data.status) THEN data.status ELSE @]
        st2 == [st1 EXCEPT !.onlineUsers[c] = AssignUserInfo(@, data)]
    IN Emit(st2, "user_list", Everyone(st2),
            [users |-> getUniqueUserList(st2.userSessions)])

\* data is a Partial<UserInfo>: a field that is Undefined is absent
handleUserInfoUpdate(st, c, data) ==
  LET username == MapGet(st.socketToUsername, c)
      i == SessionIdx(st.userSessions, username) IN
  IF ~Truthy(username) THEN st
  ELSE IF i = 0 \/ ~Has(st.onlineUsers, c) THEN st
  ELSE
    LET st1 == [st EXCEPT
                  !.userSessions[i].customStatus =
                     IF data.customStatus # Undefined THEN data.customStatus ELSE @,
                  !.userSessions[i].status =
                     IF Truthy(data.status) THEN data.status ELSE @]
        \* Object.assign(user, {...data, socketId, username, lastSeen}):
        \* the keys written after the spread win
        st2 == [st1 EXCEPT
                  !.onlineUsers[c] =
                     [AssignUserInfo(@, data) EXCEPT !.socketId = c,
                                                     !.username = username]]
    IN Emit(st2, "user_list", Everyone(st2),
            [users |-> getUniqueUserList(st2.userSessions)])

handleGetUserList(st, c) ==
  Emit(st, "user_list", {c}, [users |-> getUniqueUserList(st.userSessions)])

\* ------------------------------------------------------------- teardown
\* socket.io closes a socket before it emits 'disconnect': the socket has
\* left all its rooms and is no longer in the namespace when
\* handleDisconnect runs (server.ts:1916 registers it for that event).
TransportClose(st, c) ==
  [st EXCEPT !.connected = @ \ {c}, !.rooms[c] = {}]

\* Fault: the connection stays in the connection-to-username index
handleDisconnect_keepIndex(st0, c, reason) ==
  LET username == MapGet(st0.socketToUsername, c)
      r == removeSocketFromSession(st0.userSessions, st0.socketToUsername, c)
      st1 == [st0 EXCEPT
                !.onlineUsers = MapDelete(@, c),
                !.userSessions = r.sessions]
      st2 == IF r.ret /\ Truthy(username)
             THEN Emit(st1, "user_disconnected", Others(st1, c),
                       [username |-> username, socketId |-> c, reason |-> reason])
             ELSE st1
      st3 == Emit(st2, "user_list", Others(st2, c),
                  [users |-> getUniqueUserList(st2.userSessions)])
  IN cleanupUserFromRooms(st3, c)

\* Fault: the list is sent only when the user is completely disconnected
handleDisconnect_listOnLastOnly(st0, c, reason) ==
  LET username == MapGet(st0.socketToUsername, c)
      r == removeSocketFromSession(st0.userSessions, st0.socketToUsername, c)
      st1 == [st0 EXCEPT
                !.onlineUsers = MapDelete(@, c),
                !.userSessions = r.sessions,
                !.socketToUsername = MapDelete(@, c)]
      st2 == IF r.ret /\ Truthy(username)
             THEN Emit(Emit(st1, "user_disconnected", Others(st1, c),
                            [username |-> username, socketId |-> c,
                             reason |-> reason]),
                       "user_list", Others(st1, c),
                       [users |-> getUniqueUserList(st1.userSessions)])
             ELSE st1
  IN cleanupUserFromRooms(st2, c)

handleDisconnect(st0, c, reason) ==
  LET username == MapGet(st0.socketToUsername, c)
      r == removeSocketFromSession(st0.userSessions, st0.socketToUsername, c)
      st1 == [st0 EXCEPT
                !.onlineUsers = MapDelete(@, c),
                !.userSessions = r.sessions,
                !.socketToUsername = MapDelete(@, c)]
      st2 == IF r.ret /\ Truthy(username)
             THEN Emit(st1, "user_disconnected", Others(st1, c),
                       [username |-> username, socketId |-> c, reason |-> reason])
             ELSE st1
      st3 == Emit(st2, "user_list", Others(st2, c),
                  [users |-> getUniqueUserList(st2.userSessions)])
  IN cleanupUserFromRooms(st3, c)

\* socket.disconnect(true) at the end of handleLeave closes the socket and
\* fires its 'disconnect' listeners before it returns.
handleLeave(st0, c) ==
  LET username == MapGet(st0.socketToUsername, c)
      r == removeSocketFromSession(st0.userSessions, st0.socketToUsername, c)
      st1 == [st0 EXCEPT
                !.onlineUsers = MapDelete(@, c),
                !.userSessions = r.sessions,
                !.socketToUsername = MapDelete(@, c)]
      st2 == IF r.ret /\ Truthy(username)
             THEN Emit(st1, "user_disconnected", Others(st1, c),
                       [username |-> username, socketId |-> c,
                        reason |-> "user_initiated"])
             ELSE st1
      st3 == Emit(st2, "user_list", Others(st2, c),
                  [users |-> getUniqueUserList(st2.userSessions)])
      st4 == cleanupUserFromRooms(st3, c)
  IN handleDisconnect(TransportClose(st4, c), c, "server namespace disconnect")

\* ------------------------------------------ Message Relay & Persistence
\* Fault: every structured payload is taken for a chat
IsChat_anyObject(message) == message.t = "object"

\* typeof data.message !== "string" && data.message?.action === "chat"
IsChat(message) ==
  /\ message.t # "string"
  /\ message.t = "object"
  /\ "action" \in DOMAIN message.v
  /\ message.v.action = "chat"

\* Evaluating the argument of messageRepo.create reads data.message.data.message:
\* a TypeError when data.message.data is undefined.
CreateArgThrows(message) == "data" \notin DOMAIN message.v

\* The document messageRepo.create is called with (server.ts:2055-2064)
CreateArg(message) ==
  [room_id |-> message.v.roomId,
   sender |-> message.v.senderId,
   content |-> message.v.data.message,
   sent_at |-> message.v.data.timespan,
   status |-> "sent",
   message_type |-> message.v.data.type]

\* Repository.create: insertOne, then the document with its insertedId
create(document, id) ==
  [f \in DOMAIN document \cup {"_id"} |->
     IF f = "_id" THEN id ELSE document[f]]

\* The $set of roomRepo.updateOne (server.ts:2081-2092)
SummarySet(message) ==
  [last_message |-> message.v.data.message,
   last_message_at |-> message.v.data.timespan,
   last_message_sender |-> message.v.senderId]

\* Repository.updateOne: collection.updateOne(filter, {$set}) on room_id
updateOne(docs, roomId, set) ==
  IF roomId \in DOMAIN docs /\ docs[roomId] # NoDoc
  THEN [docs EXCEPT ![roomId] = set]
  ELSE docs

\* JSON.parse(JSON.stringify(savedMessage)): the ObjectId becomes its hex
\* string and the Date its ISO string.
toJSON(doc) ==
  [f \in DOMAIN doc |->
     IF f = "_id" THEN "oid" \o ToString(doc[f])
     ELSE IF f = "sent_at" THEN "T" \o ToString(doc[f])
     ELSE doc[f]]

WithAction(plain) ==
  [f \in DOMAIN plain \cup {"action"} |->
     IF f = "action" THEN "chat" ELSE plain[f]]

\* Fault: the sender is left out of the fan-out (socket.to instead of io.to)
RelayPlain_toOthers(st, c, data) ==
  Emit(st, "room_message", OthersInRoom(st, c, data.room),
       [from |-> c, fromUsername |-> MapGet(st.socketToUsername, c),
        room |-> data.room, message |-> data.message])

\* The else branch of handleRoomMessage: forward verbatim
RelayPlain(st, c, data) ==
  Emit(st, "room_message", InRoom(st, data.room),
       [from |-> c, fromUsername |-> MapGet(st.socketToUsername, c),
        room |-> data.room, message |-> data.message])

\* Fault: the client's payload is forwarded, as for a plain message
RelayChat_echoPayload(st, task) ==
  Emit(st, "room_message", InRoom(st, task.room),
       [from |-> task.from, fromUsername |-> task.fromUsername,
        room |-> task.room, message |-> task.message.v])

\* Fault: nothing is emitted when nothing was saved
RelayChat_dropUnsaved(st, task) ==
  IF task.saved = NoDoc THEN st
  ELSE Emit(st, "room_message", InRoom(st, task.room),
            [from |-> task.from, fromUsername |-> task.fromUsername,
             room |-> task.room,
             message |-> WithAction(toJSON(task.saved))])

\* Fault: the sender's username is looked up when the broadcast is built
RelayChat_lookupAtEmit(st, task) ==
  Emit(st, "room_message", InRoom(st, task.room),
       IF task.saved # NoDoc
       THEN [from |-> task.from,
             fromUsername |-> MapGet(st.socketToUsername, task.from),
             room |-> task.room,
             message |-> WithAction(toJSON(task.saved))]
       ELSE [from |-> task.from,
             fromUsername |-> MapGet(st.socketToUsername, task.from),
             room |-> task.room])

\* Fault: the recipients are the members the room had when the event arrived
RelayChat_toMembersThen(st, task) ==
  Emit(st, "room_message", task.membersThen \cap st.connected,
       IF task.saved # NoDoc
       THEN [from |-> task.from, fromUsername |-> task.fromUsername,
             room |-> task.room,
             message |-> WithAction(toJSON(task.saved))]
       ELSE [from |-> task.from, fromUsername |-> task.fromUsername,
             room |-> task.room])

\* The continuation of handleRoomMessage after the await (server.ts:2130-2146)
RelayChat(st, task) ==
  Emit(st, "room_message", InRoom(st, task.room),
       IF task.saved # NoDoc
       THEN [from |-> task.from, fromUsername |-> task.fromUsername,
             room |-> task.room,
             message |-> WithAction(toJSON(task.saved))]
       ELSE [from |-> task.from, fromUsername |-> task.fromUsername,
             room |-> task.room])

\* handleRoomMessage up to its first suspension, for a "chat" payload:
\* the task it leaves behind.
StartChat(st, c, data, id, reposSet) ==
  LET base == [id |-> id, from |-> c,
               fromUsername |-> MapGet(st.socketToUsername, c),
               room |-> data.room, message |-> data.message,
               saved |-> NoDoc, roomExists |-> NoDoc,
               creates |-> 0, updates |-> 0,
               createFailed |-> FALSE, summaryFailed |-> FALSE] IN
  IF ~reposSet THEN base @@ [pc |-> "emit"]
  ELSE IF CreateArgThrows(data.message) THEN base @@ [pc |-> "emit"]
  ELSE [base EXCEPT !.creates = @ + 1] @@ [pc |-> "create"]

\* ================================================================ actions
vars == <<started, exited, nextId, connected, rooms, onlineUsers, userSessions,
          socketToUsername, handshake, nUpdates, repos, tasks, nChats,
          dbMessages, dbRooms, timers, heartbeatInterval, out, last>>

regVars == <<connected, rooms, onlineUsers, userSessions, socketToUsername>>
dbVars == <<dbMessages, dbRooms>>
hbVars == <<timers, heartbeatInterval>>
NoTimer == 0                             \* heartbeatInterval is null

EmptyRoom == [last_message |-> Undefined, last_message_at |-> 0,
              last_message_sender |-> Undefined]

Init ==
  /\ started = FALSE
  /\ exited = FALSE
  /\ nextId = 1
  /\ connected = {}
  /\ rooms = [c \in SocketIds |-> {}]
  /\ onlineUsers = <<>>
  /\ userSessions = <<>>
  /\ socketToUsername = <<>>
  /\ handshake = <<>>
  /\ nUpdates = 0
  /\ repos = FALSE
  /\ tasks = <<>>
  /\ nChats = 0
  /\ dbMessages = <<>>
  /\ dbRooms \in [RoomIds -> {NoDoc, EmptyRoom}]
  /\ timers = {}
  /\ heartbeatInterval = NoTimer
  /\ out = <<>>
  /\ last = [op |-> "init"]

\* Make the handler's result the next state
Commit(st) ==
  /\ connected' = st.connected
  /\ rooms' = st.rooms
  /\ onlineUsers' = st.onlineUsers
  /\ userSessions' = st.userSessions
  /\ socketToUsername' = st.socketToUsername
  /\ out' = st.out

\* Live connections whose handshake claims username u
Claimers(u) == {s \in connected : HandshakeUsername(handshake[s], s) = u}

\* A timer that is not set yet: what setInterval returns
NewTimer == CHOOSE t \in 1..(Cardinality(timers) + 1) : t \notin timers

\* this.heartbeatInterval = setInterval(...)
startHeartbeat ==
  /\ timers' = timers \cup {NewTimer}
  /\ heartbeatInterval' = NewTimer

\* clearInterval(this.heartbeatInterval) if it is set
stopHeartbeat ==
  /\ timers' = timers \ {heartbeatInterval}
  /\ heartbeatInterval' = NoTimer

\* start(): initializeMongoDB sets the three repositories, then listen(),
\* whose callback calls startHeartbeat()
Start ==
  /\ ~started
  /\ ~exited
  /\ started' = TRUE
  /\ repos' = TRUE
  /\ startHeartbeat
  /\ last' = [op |-> "start"]
  /\ out' = <<>>
  /\ UNCHANGED <<exited, nextId, regVars, handshake, nUpdates, tasks, nChats, dbVars>>

\* io.on('connection'): the socket is in the namespace and in its own room.
\* max bounds the connections of the run; names and css are the handshake
\* values the clients of the run use.
\* The session a username has on entry of a handler, if any
SessionBefore(u) ==
  IF u \in SessionNames(userSessions)
  THEN userSessions[SessionIdx(userSessions, u)]
  ELSE NoDoc

\* auths are the handshake.auth objects the clients of the run send:
\* token, username, userInfo.username and userInfo.customStatus.
ConnectAuth(max, auths) ==
  /\ started
  /\ nextId <= max
  /\ \E auth \in auths :
       LET c == Sid(nextId)
           st0 == [St EXCEPT !.connected = @ \cup {c}, !.rooms[c] = {c}]
       IN IF setupMiddleware(auth)
          THEN /\ Commit(handleConnection(st0, c, auth))
               /\ handshake' = MapSet(handshake, c,
                                      [username |-> auth.username,
                                       userInfoUsername |-> auth.userInfoUsername])
               /\ last' = [op |-> "connect", sock |-> c, auth |-> auth,
                           session |-> SessionBefore(HandshakeUsername(auth, c)),
                           username |-> HandshakeUsername(auth, c),
                           n |-> Cardinality(Claimers(HandshakeUsername(auth, c)))]
          ELSE \* the middleware refused: no 'connection' event
               /\ out' = <<>>
               /\ last' = [op |-> "connect_refused", sock |-> c, auth |-> auth]
               /\ UNCHANGED <<regVars, handshake>>
  /\ nextId' = nextId + 1
  /\ UNCHANGED <<started, exited, nUpdates, repos, tasks, nChats, dbVars>>
  /\ UNCHANGED hbVars

\* Clients that send auth.username and userInfo.customStatus only
ConnectWith(max, names, css) ==
  ConnectAuth(max, [token : {Undefined}, username : names,
                    userInfoUsername : {Undefined}, customStatus : css])

Connect == ConnectWith(MaxSockets, HandshakeNames, CustomStatuses \cup {Undefined})

\* The relay is exercised with fewer connections, each a user of its own
RelayConnect == ConnectWith(MaxRelaySockets, {Undefined}, {Undefined})

\* The plain relay is exercised with connections that may share a username
PlainConnect == ConnectWith(MaxRelaySockets, HandshakeNames, {Undefined})

\* The presence updates are exercised with fewer connections
UpdateConnect ==
  ConnectWith(MaxUpdateSockets, HandshakeNames, CustomStatuses \cup {Undefined})

\* The room summary is exercised with the chats of one or two connections
SummaryConnect == ConnectWith(MaxSummarySockets, Usernames, {Undefined})

\* The handshake is exercised with every combination of credentials
GatewayAuths ==
  [token : {Undefined, "tok"}, username : {Undefined, "", "alice"},
   userInfoUsername : {Undefined, "bob"}, customStatus : {Undefined}]

GatewayConnect == ConnectAuth(MaxGatewaySockets, GatewayAuths)

\* The transport closes the connection (client gone, ping timeout)
Disconnect ==
  /\ \E c \in connected :
       /\ Commit(handleDisconnect(TransportClose(St, c), c, "transport close"))
       /\ handshake' = MapDelete(handshake, c)
       /\ last' = [op |-> "disconnect", sock |-> c, rooms |-> rooms[c] \ {c},
                   username |-> HandshakeUsername(handshake[c], c),
                   n |-> Cardinality(Claimers(HandshakeUsername(handshake[c], c)))]
  /\ UNCHANGED <<started, exited, nextId, nUpdates, repos, tasks, nChats, dbVars>>
  /\ UNCHANGED hbVars

Leave ==
  /\ \E c \in connected :
       /\ Commit(handleLeave(St, c))
       /\ handshake' = MapDelete(handshake, c)
       /\ last' = [op |-> "leave", sock |-> c, rooms |-> rooms[c] \ {c},
                   username |-> HandshakeUsername(handshake[c], c),
                   n |-> Cardinality(Claimers(HandshakeUsername(handshake[c], c)))]
  /\ UNCHANGED <<started, exited, nextId, nUpdates, repos, tasks, nChats, dbVars>>
  /\ UNCHANGED hbVars

JoinRoom ==
  /\ \E c \in connected, r \in RoomNames :
       /\ Commit(handleJoinRoom(St, c, r))
       /\ last' = [op |-> "join_room", sock |-> c, room |-> r]
  /\ UNCHANGED <<started, exited, nextId, handshake, nUpdates, repos, tasks, nChats, dbVars>>
  /\ UNCHANGED hbVars

\* max bounds the updates of the run; statuses and customs are the values
\* the clients of the run send
StatusUpdateWith(max, statuses, customs) ==
  /\ nUpdates < max
  /\ \E c \in connected, s \in statuses, cs \in customs :
       /\ Commit(handleStatusUpdate(St, c, [status |-> s, customStatus |-> cs]))
       /\ last' = [op |-> "status_update", sock |-> c,
                   data |-> [status |-> s, customStatus |-> cs]]
  /\ nUpdates' = nUpdates + 1
  /\ UNCHANGED <<started, exited, nextId, handshake, repos, tasks, nChats, dbVars>>
  /\ UNCHANGED hbVars

StatusUpdate == StatusUpdateWith(MaxUpdates, StatusInputs, CustomStatusInputs)

\* max bounds the updates of the run; updates are the payloads the clients
\* of the run send
UserInfoUpdateWith(max, updates) ==
  /\ nUpdates < max
  /\ \E c \in connected, data \in updates :
       /\ Commit(handleUserInfoUpdate(St, c, data))
       /\ last' = [op |-> "user_info_update", sock |-> c, data |-> data]
  /\ nUpdates' = nUpdates + 1
  /\ UNCHANGED <<started, exited, nextId, handshake, repos, tasks, nChats, dbVars>>
  /\ UNCHANGED hbVars

UserInfoUpdate == UserInfoUpdateWith(MaxUpdates, InfoUpdates)

\* Sockets that were accepted and are closed by now.  A packet of such a
\* socket that the server had already read can still reach its listener:
\* socket.io hands received events to the listeners from process.nextTick,
\* and not every release looks at socket.connected there.
Departed == {Sid(n) : n \in 1..(nextId - 1)} \ connected

\* A status_update that raced with the teardown of its connection
LateStatusUpdate ==
  /\ nUpdates < MaxUpdates
  /\ \E c \in Departed, s \in StatusInputs, cs \in CustomStatusInputs :
       /\ Commit(handleStatusUpdate(St, c, [status |-> s, customStatus |-> cs]))
       /\ last' = [op |-> "status_update", sock |-> c,
                   data |-> [status |-> s, customStatus |-> cs]]
  /\ nUpdates' = nUpdates + 1
  /\ UNCHANGED <<started, exited, nextId, handshake, repos, tasks, nChats, dbVars>>
  /\ UNCHANGED hbVars

\* A user_info_update that raced with the teardown of its connection
LateUserInfoUpdate ==
  /\ nUpdates < MaxUpdates
  /\ \E c \in Departed, data \in InfoUpdates :
       /\ Commit(handleUserInfoUpdate(St, c, data))
       /\ last' = [op |-> "user_info_update", sock |-> c, data |-> data]
  /\ nUpdates' = nUpdates + 1
  /\ UNCHANGED <<started, exited, nextId, handshake, repos, tasks, nChats, dbVars>>
  /\ UNCHANGED hbVars

GetUserList ==
  /\ \E c \in connected :
       /\ Commit(handleGetUserList(St, c))
       /\ last' = [op |-> "get_user_list", sock |-> c]
  /\ UNCHANGED <<started, exited, nextId, handshake, nUpdates, repos, tasks, nChats, dbVars>>
  /\ UNCHANGED hbVars

\* The interval timer that startHeartbeat() sets in the listen callback fires
Heartbeat ==
  /\ started
  /\ timers # {}
  /\ Commit(sendHeartbeat(St))
  /\ last' = [op |-> "heartbeat"]
  /\ UNCHANGED <<started, exited, nextId, handshake, nUpdates, repos, tasks, nChats, dbVars>>
  /\ UNCHANGED hbVars

\* The embedding program calls the public startHeartbeat()
StartHeartbeat ==
  /\ ~exited
  /\ Cardinality(timers) < MaxTimers
  /\ startHeartbeat
  /\ out' = <<>>
  /\ last' = [op |-> "start_heartbeat"]
  /\ UNCHANGED <<regVars, started, exited, nextId, handshake, nUpdates, repos, tasks, nChats, dbVars>>

\* The embedding program calls the public stopHeartbeat(); shutdown() calls
\* it first
StopHeartbeat ==
  /\ ~exited
  /\ stopHeartbeat
  /\ out' = <<>>
  /\ last' = [op |-> "stop_heartbeat"]
  /\ UNCHANGED <<regVars, started, exited, nextId, handshake, nUpdates, repos, tasks, nChats, dbVars>>

\* -------------------------------------------------- stateless event steps
MessagePayloads == PlainMessages \cup NoPayload
PrivatePayloads ==
  {JsObject([targetSocketId |-> t, message |-> c]) :
     t \in SocketIds, c \in Contents} \cup NoPayload
FilePayloads == {JsObject(<<>>)} \cup NoPayload           \* {} has no fields

\* An exception leaves a listener: socket.io calls listeners from a
\* process.nextTick callback without a try/catch and the program installs no
\* 'uncaughtException' handler (server.ts:2515-2525 registers SIGTERM and
\* SIGINT only), so Node.js prints the error and exits.  Every connection
\* and everything in memory goes with the process.
Terminate ==
  /\ exited' = TRUE
  /\ started' = FALSE
  /\ connected' = {}
  /\ rooms' = [c \in SocketIds |-> {}]
  /\ onlineUsers' = <<>>
  /\ userSessions' = <<>>
  /\ socketToUsername' = <<>>
  /\ handshake' = <<>>
  /\ tasks' = <<>>
  /\ timers' = {}
  /\ heartbeatInterval' = NoTimer
  /\ out' = <<>>

\* The listener returns, or throws
Dispatch(st) ==
  IF st.threw THEN Terminate
  ELSE Commit(st) /\ UNCHANGED <<started, exited, handshake, tasks, hbVars>>

\* What the claims need of the state a listener was entered in
Entry(op, c, data) ==
  [op |-> op, sock |-> c, data |-> data, sessions |-> userSessions,
   username |-> HandshakeUsername(handshake[c], c)]

EventConnect == ConnectWith(MaxEventSockets, HandshakeNames, {Undefined})

Message ==
  /\ \E c \in connected, data \in MessagePayloads :
       /\ Dispatch(handleMessage(St, c, data))
       /\ last' = Entry("message", c, data)
  /\ UNCHANGED <<nextId, nUpdates, repos, nChats, dbVars>>

PrivateMessage ==
  /\ \E c \in connected, data \in PrivatePayloads :
       /\ Dispatch(handlePrivateMessage(St, c, data))
       /\ last' = Entry("private_message", c, data)
  /\ UNCHANGED <<nextId, nUpdates, repos, nChats, dbVars>>

FileShare ==
  /\ \E c \in connected, data \in FilePayloads :
       /\ Dispatch(handleFileShare(St, c, data))
       /\ last' = Entry("file_share", c, data)
  /\ UNCHANGED <<nextId, nUpdates, repos, nChats, dbVars>>

\* status_update without a payload
StatusUpdateNoPayload ==
  /\ \E c \in connected, data \in NoPayload :
       /\ Dispatch(handleStatusUpdate(St, c, data))
       /\ last' = Entry("status_update", c, data)
  /\ UNCHANGED <<nextId, nUpdates, repos, nChats, dbVars>>

\* room_message without a payload: `const {room, message} = data` throws
\* inside the async handleRoomMessage, whose promise the listener drops.
\* What an unhandled rejection does depends on the --unhandled-rejections
\* mode of the runtime: it ends the process (the default of the node:20
\* image) or is only reported.
RoomMessageNoPayload ==
  /\ \E c \in connected, data \in NoPayload, fatal \in BOOLEAN :
       /\ IF fatal THEN Terminate
          ELSE /\ out' = <<>>
               /\ UNCHANGED <<regVars, started, exited, handshake, tasks, hbVars>>
       /\ last' = Entry("room_message", c, data)
  /\ UNCHANGED <<nextId, nUpdates, repos, nChats, dbVars>>

\* ---------------------------------------------------- room_message events
TaskAt(i, pc) == i \in 1..Len(tasks) /\ tasks[i].pc = pc
RemoveAt(seq, i) == [j \in 1..(Len(seq) - 1) |-> IF j < i THEN seq[j] ELSE seq[j + 1]]

pipeFrame == <<started, exited, nextId, regVars, handshake, nUpdates, repos, nChats>>

\* A room_message that takes the else branch: relayed within the handler
RoomMessagePlain ==
  /\ \E c \in connected, r \in RoomNames, m \in RoomMessages :
       /\ ~IsChat(m)
       /\ Commit(RelayPlain(St, c, [room |-> r, message |-> m]))
       /\ last' = [op |-> "room_message", sock |-> c,
                   data |-> [room |-> r, message |-> m]]
  /\ UNCHANGED <<started, exited, nextId, handshake, nUpdates, repos, tasks, nChats, dbVars>>
  /\ UNCHANGED hbVars

\* A room_message with action "chat": runs to the await of
\* saveMessageToMongoDB and suspends.  max bounds the chats of the run and
\* msgs are the payloads the clients of the run send; with note set the
\* task records who was in the room when the event arrived.
ChatNoting(max, msgs, note) ==
  /\ nChats < max
  /\ \E c \in connected, r \in RoomNames, m \in msgs :
       /\ IsChat(m)
       /\ tasks' = Append(tasks,
                          StartChat(St, c, [room |-> r, message |-> m],
                                    nChats + 1, repos)
                            @@ [claimed |-> HandshakeUsername(handshake[c], c),
                                membersThen |->
                                  IF note THEN InRoom(St, r) ELSE {}])
       /\ last' = [op |-> "room_message_chat", sock |-> c,
                   data |-> [room |-> r, message |-> m]]
  /\ nChats' = nChats + 1
  /\ out' = <<>>
  /\ UNCHANGED <<started, exited, nextId, regVars, handshake, nUpdates, repos, dbVars>>
  /\ UNCHANGED hbVars

ChatWith(max, msgs) == ChatNoting(max, msgs, FALSE)

\* The relay is exercised with every payload shape and one sent timestamp
RelayMessages ==
  {m \in RoomMessages : m \in FullChats => m.v.data.timespan = 1}

RoomMessageChat == ChatWith(MaxRelayChats, RelayMessages)

SummaryChat == ChatWith(MaxChats, FullChats)

\* messageRepo.create resolves: the document is inserted and
\* roomRepo.findOne is called
CreateOk ==
  /\ \E i \in 1..Len(tasks) :
       /\ TaskAt(i, "create")
       /\ LET doc == create(CreateArg(tasks[i].message), Len(dbMessages) + 1) IN
          /\ dbMessages' = Append(dbMessages, doc)
          /\ tasks' = [tasks EXCEPT ![i].saved = doc, ![i].pc = "findRoom"]
       /\ last' = [op |-> "create_ok", id |-> tasks[i].id]
  /\ out' = <<>>
  /\ UNCHANGED <<pipeFrame, dbRooms>>
  /\ UNCHANGED hbVars

\* messageRepo.create rejects: the outer catch returns null
CreateFails ==
  /\ \E i \in 1..Len(tasks) :
       /\ TaskAt(i, "create")
       /\ tasks' = [tasks EXCEPT ![i].pc = "emit", ![i].createFailed = TRUE]
       /\ last' = [op |-> "create_fails", id |-> tasks[i].id]
  /\ out' = <<>>
  /\ UNCHANGED <<pipeFrame, dbVars>>
  /\ UNCHANGED hbVars

\* roomRepo.findOne resolves with the room document or null;
\* userRepo.findOne is called
FindRoomOk ==
  /\ \E i \in 1..Len(tasks) :
       /\ TaskAt(i, "findRoom")
       /\ tasks' = [tasks EXCEPT
                      ![i].roomExists = dbRooms[tasks[i].message.v.roomId],
                      ![i].pc = "findUser"]
       /\ last' = [op |-> "find_room_ok", id |-> tasks[i].id]
  /\ out' = <<>>
  /\ UNCHANGED <<pipeFrame, dbVars>>
  /\ UNCHANGED hbVars

\* userRepo.findOne resolves with the sender's document or null;
\* updateOne is called if (roomExists && userData)
FindUserOk ==
  /\ \E i \in 1..Len(tasks), userData \in BOOLEAN :
       /\ TaskAt(i, "findUser")
       /\ tasks' = IF tasks[i].roomExists # NoDoc /\ userData
                   THEN [tasks EXCEPT ![i].pc = "update", ![i].updates = @ + 1]
                   ELSE [tasks EXCEPT ![i].pc = "emit"]
       /\ last' = [op |-> "find_user_ok", id |-> tasks[i].id]
  /\ out' = <<>>
  /\ UNCHANGED <<pipeFrame, dbVars>>
  /\ UNCHANGED hbVars

\* roomRepo.updateOne resolves: the $set is applied to the room document
UpdateOk ==
  /\ \E i \in 1..Len(tasks) :
       /\ TaskAt(i, "update")
       /\ dbRooms' = updateOne(dbRooms, tasks[i].message.v.roomId,
                               SummarySet(tasks[i].message))
       /\ tasks' = [tasks EXCEPT ![i].pc = "emit"]
       /\ last' = [op |-> "update_ok", id |-> tasks[i].id,
                   room |-> tasks[i].message.v.roomId,
                   before |-> dbRooms[tasks[i].message.v.roomId]]
  /\ out' = <<>>
  /\ UNCHANGED <<pipeFrame, dbMessages>>
  /\ UNCHANGED hbVars

\* Fault: no inner try/catch, the rejection reaches the outer catch, which
\* returns null
SummaryFails_outerCatch ==
  /\ \E i \in 1..Len(tasks) :
       /\ tasks[i].pc \in {"findRoom", "findUser", "update"}
       /\ tasks' = [tasks EXCEPT ![i].pc = "emit", ![i].summaryFailed = TRUE,
                                 ![i].saved = NoDoc]
       /\ last' = [op |-> "summary_fails", id |-> tasks[i].id]
  /\ out' = <<>>
  /\ UNCHANGED <<pipeFrame, dbVars>>
  /\ UNCHANGED hbVars

\* A repository call of the room-summary step rejects: the inner catch
\* logs and saveMessageToMongoDB returns savedMessage
SummaryFails ==
  /\ \E i \in 1..Len(tasks) :
       /\ tasks[i].pc \in {"findRoom", "findUser", "update"}
       /\ tasks' = [tasks EXCEPT ![i].pc = "emit", ![i].summaryFailed = TRUE]
       /\ last' = [op |-> "summary_fails", id |-> tasks[i].id]
  /\ out' = <<>>
  /\ UNCHANGED <<pipeFrame, dbVars>>
  /\ UNCHANGED hbVars

\* handleRoomMessage resumes after the await and emits to the room
EmitChat ==
  /\ \E i \in 1..Len(tasks) :
       /\ TaskAt(i, "emit")
       /\ Commit(RelayChat(St, tasks[i]))
       /\ tasks' = RemoveAt(tasks, i)
       /\ last' = [op |-> "relay_chat", sock |-> tasks[i].from, task |-> tasks[i]]
  /\ UNCHANGED <<started, exited, nextId, handshake, nUpdates, repos, nChats, dbVars>>
  /\ UNCHANGED hbVars

\* Connections come and go and join rooms: the Session Registry
Next ==
  \/ Start
  \/ Connect
  \/ Disconnect
  \/ Leave
  \/ JoinRoom
  \/ GetUserList
  \/ Heartbeat

Spec == Init /\ [][Next]_vars

\* The same with the presence updates of the connected clients
UpdateNext ==
  \/ Start
  \/ UpdateConnect
  \/ Disconnect
  \/ Leave
  \/ StatusUpdate
  \/ UserInfoUpdate
  \/ LateStatusUpdate
  \/ LateUserInfoUpdate

UpdateSpec == Init /\ [][UpdateNext]_vars

\* The relay of room_messages that are not persisted, among chats whose
\* repository calls are still pending
PlainNext ==
  \/ Start
  \/ PlainConnect
  \/ Disconnect
  \/ JoinRoom
  \/ RoomMessagePlain
  \/ RoomMessageChat
  \/ EmitChat

PlainSpec == Init /\ [][PlainNext]_vars

\* Rooms and presence together: the clients join rooms, relay in them and
\* update their presence.  The "chat" pipeline runs in PlainSpec and
\* RelaySpec.
MemberConnect == ConnectWith(MaxMemberSockets, HandshakeNames, {Undefined})

\* A client goes away, with or without a custom status, ...
MemberStatusUpdate ==
  StatusUpdateWith(MaxMemberUpdates, {"away"}, CustomStatuses \cup {Undefined})

\* ... or sets itself busy, or tries to rename itself
MemberInfoUpdates ==
  {u \in InfoUpdates : \/ u.status = "busy" /\ u.customStatus = Undefined
                       \/ u.username = "mallory" /\ u.socketId = "s0"}

MemberUserInfoUpdate == UserInfoUpdateWith(MaxMemberUpdates, MemberInfoUpdates)

MemberNext ==
  \/ Start
  \/ MemberConnect
  \/ Disconnect
  \/ JoinRoom
  \/ RoomMessagePlain
  \/ MemberStatusUpdate
  \/ MemberUserInfoUpdate

MemberSpec == Init /\ [][MemberNext]_vars

\* The relay side: connections, rooms and the "chat" pipeline
RelayNext ==
  \/ Start
  \/ RelayConnect
  \/ Disconnect
  \/ JoinRoom
  \/ RoomMessageChat
  \/ CreateOk
  \/ CreateFails
  \/ FindRoomOk
  \/ FindUserOk
  \/ UpdateOk
  \/ SummaryFails
  \/ EmitChat

\* Joins, leaves and disconnects while a "chat" is being persisted
WindowConnect == ConnectWith(MaxWindowSockets, {Undefined}, {Undefined})

\* The clients of these runs send a chat when the one before it was relayed
WindowChat ==
  /\ tasks = <<>>
  /\ ChatNoting(MaxWindowChats, {m \in FullChats : m.v.data.timespan = 1}, TRUE)

WindowNext ==
  \/ Start
  \/ WindowConnect
  \/ Disconnect
  \/ Leave
  \/ JoinRoom
  \/ WindowChat
  \/ CreateOk
  \/ CreateFails
  \/ FindRoomOk
  \/ FindUserOk
  \/ UpdateOk
  \/ SummaryFails
  \/ EmitChat

WindowSpec == Init /\ [][WindowNext]_vars

\* The presence list: every handler that writes a session, with the few
\* presence updates of MemberSpec
ListNext ==
  \/ Start
  \/ UpdateConnect
  \/ Disconnect
  \/ Leave
  \/ GetUserList
  \/ MemberStatusUpdate
  \/ MemberUserInfoUpdate

ListSpec == Init /\ [][ListNext]_vars

\* The heartbeat timer, started and stopped while clients come and go
TimerConnect == ConnectWith(MaxTimerSockets, HandshakeNames, {Undefined})

TimerNext ==
  \/ Start
  \/ TimerConnect
  \/ Disconnect
  \/ StartHeartbeat
  \/ StopHeartbeat
  \/ Heartbeat

TimerSpec == Init /\ [][TimerNext]_vars

\* The relay runs start with the room documents in place
RelayInit == Init /\ \A r \in RoomIds : dbRooms[r] = EmptyRoom

RelaySpec == RelayInit /\ [][RelayNext]_vars

\* The same, where the event loop runs every continuation that is ready.
\* Nothing obliges the database to answer: the repository calls get no
\* fairness.
RelayFairSpec == RelaySpec /\ WF_vars(EmitChat)

\* The events that touch no registry, with and without payload
EventNext ==
  \/ Start
  \/ EventConnect
  \/ Disconnect
  \/ Message
  \/ PrivateMessage
  \/ FileShare
  \/ StatusUpdateNoPayload
  \/ RoomMessageNoPayload

EventSpec == Init /\ [][EventNext]_vars

\* Private messages among clients that join rooms of any name: roomName is
\* whatever string the client sends, the id of another connection included
PrivateConnect == ConnectWith(MaxPrivateSockets, {Undefined}, {Undefined})

JoinableRooms == RoomNames \cup {Sid(1)}

JoinNamedRoom ==
  /\ \E c \in connected, r \in JoinableRooms :
       /\ Commit(handleJoinRoom(St, c, r))
       /\ last' = [op |-> "join_room", sock |-> c, room |-> r]
  /\ UNCHANGED <<started, exited, nextId, handshake, nUpdates, repos, tasks, nChats, dbVars>>
  /\ UNCHANGED hbVars

PrivateNext ==
  \/ Start
  \/ PrivateConnect
  \/ Disconnect
  \/ JoinNamedRoom
  \/ PrivateMessage

PrivateSpec == Init /\ [][PrivateNext]_vars

\* The Connection Gateway: handshakes of every kind
GatewayNext ==
  \/ Start
  \/ GatewayConnect
  \/ Disconnect

GatewaySpec == Init /\ [][GatewayNext]_vars

\* The persistence side: concurrent "chat" pipelines on one room summary
SummaryNext ==
  \/ Start
  \/ SummaryConnect
  \/ SummaryChat
  \/ CreateOk
  \/ CreateFails
  \/ FindRoomOk
  \/ FindUserOk
  \/ UpdateOk
  \/ SummaryFails
  \/ EmitChat

SummarySpec == Init /\ [][SummaryNext]_vars

\* ================================================================ claims
\* The username the handshake of live connection s claims
Claimed(s) == HandshakeUsername(handshake[s], s)
ClaimedNames == {Claimed(s) : s \in connected}
SessionOf(u) == userSessions[SessionIdx(userSessions, u)]
EventsOf(ev) == {i \in 1..Len(out) : out[i].ev = ev}
Members(room) == {s \in connected : room \in rooms[s]}

\* C1: a session exists for a username exactly when a live connection
\* claims that username, and no session has an empty connection set.
C1_SessionIffLiveConnection ==
  /\ SessionNames(userSessions) = ClaimedNames
  /\ \A i \in 1..Len(userSessions) : Len(userSessions[i].socketIds) >= 1

\* The last connection of a user went while another user stays online
C1_Witness ==
  /\ last.op \in {"disconnect", "leave"}
  /\ last.n = 1
  /\ Len(userSessions) >= 1

\* C2: socketToUsername[c] = u exactly when c is in the connection set of
\* u's session; the index covers exactly the live connections and every
\* live connection is in exactly one session.
C2_IndexAgreesWithSessions ==
  /\ DOMAIN socketToUsername = connected
  /\ \A c \in SocketIds : \A i \in 1..Len(userSessions) :
       (Has(socketToUsername, c) /\ socketToUsername[c] = userSessions[i].username)
         <=> (c \in SeqRange(userSessions[i].socketIds))
  /\ \A c \in connected :
       Cardinality({i \in 1..Len(userSessions) :
                      c \in SeqRange(userSessions[i].socketIds)}) = 1

\* One of two connections of a user was removed, the other is still indexed
C2_Witness ==
  /\ last.op \in {"disconnect", "leave"}
  /\ last.n = 2
  /\ Has(socketToUsername, "s2")
  /\ ~Has(socketToUsername, "s1")

\* C3: the unique presence list has one record per username that has a
\* live connection, and as many records as there are such usernames.
C3_PresenceListPerUsername ==
  LET list == getUniqueUserList(userSessions) IN
  /\ Len(list) = Cardinality(ClaimedNames)
  /\ {list[i].username : i \in 1..Len(list)} = ClaimedNames
  /\ \A i, j \in 1..Len(list) : list[i].username = list[j].username => i = j

\* Two connections of one user and one of another: two records, not three
C3_Witness ==
  /\ Cardinality(connected) = 3
  /\ Cardinality(ClaimedNames) = 2
  /\ Len(getUniqueUserList(userSessions)) = 2

\* C4: a connect emits the presence-join 'user_status_changed' (status
\* online, to every other connection) exactly when no live connection
\* claimed the username before it.
C4_PresenceJoinOnlyOnFirst ==
  last.op = "connect" =>
    IF last.n = 0
    THEN /\ Cardinality(EventsOf("user_status_changed")) = 1
         /\ \A i \in EventsOf("user_status_changed") :
              /\ out[i].to = connected \ {last.sock}
              /\ out[i].data.username = last.username
              /\ out[i].data.status = "online"
    ELSE EventsOf("user_status_changed") = {}

\* The third connection joins a user who is down to one live connection
C4_Witness ==
  /\ last.op = "connect"
  /\ last.sock = "s3"
  /\ last.n = 1
  /\ Cardinality(connected) = 2
  /\ EventsOf("user_status_changed") = {}

\* C5: removing one of several connections of a user keeps the session,
\* one connection smaller, and emits no 'user_disconnected'; removing the
\* last one emits it exactly once, for disconnect and for leave.
C5_DisconnectedOnlyOnLast ==
  last.op \in {"disconnect", "leave"} =>
    IF last.n > 1
    THEN /\ EventsOf("user_disconnected") = {}
         /\ last.username \in SessionNames(userSessions)
         /\ Len(SessionOf(last.username).socketIds) = last.n - 1
         /\ last.sock \notin SeqRange(SessionOf(last.username).socketIds)
    ELSE /\ Cardinality(EventsOf("user_disconnected")) = 1
         /\ \A i \in EventsOf("user_disconnected") :
              /\ out[i].data.username = last.username
              /\ out[i].data.socketId = last.sock
              /\ out[i].to = connected
         /\ last.username \notin SessionNames(userSessions)

\* A leave removed the last connection of a user while others are connected
C5_Witness ==
  /\ last.op = "leave"
  /\ last.n = 1
  /\ connected # {}
  /\ Cardinality(EventsOf("user_disconnected")) = 1

\* A structured payload whose action tag is "chat", read off the payload
ChatPayload(m) ==
  /\ m.t = "object"
  /\ "action" \in DOMAIN m.v
  /\ m.v.action = "chat"

\* C6: a room_message that is a plain string, or structured with an action
\* other than "chat", starts no repository call (no pipeline is started,
\* the collections are untouched) and is relayed within the handler to the
\* members of the room, message verbatim, with the sender's connection id
\* and username.
C6_PlainRelayedWithoutStorage ==
  [][(/\ last' # last
      /\ last'.op \in {"room_message", "room_message_chat"}
      /\ ~ChatPayload(last'.data.message))
     => /\ tasks' = tasks
        /\ dbMessages' = dbMessages
        /\ dbRooms' = dbRooms
        /\ out' = <<[ev |-> "room_message",
                     to |-> Members(last'.data.room),
                     data |-> [from |-> last'.sock,
                               fromUsername |-> Claimed(last'.sock),
                               room |-> last'.data.room,
                               message |-> last'.data.message]]>>]_vars

\* A structured non-chat payload was relayed to a room that has members
C6_Witness ==
  /\ last.op = "room_message"
  /\ last.data.message.t = "object"
  /\ Len(out) = 1
  /\ out[1].to # {}
  /\ out[1].data.message = last.data.message

\* C7: every "chat" room_message calls messageRepo.create exactly once.
C7_CreateExactlyOnce ==
  last.op = "relay_chat" => last.task.creates = 1

\* C8: when create fails, exactly one 'room_message' goes to the members
\* of the room, with from, fromUsername and room and without a message.
C8_FailedCreateStillRelayed ==
  (last.op = "relay_chat" /\ last.task.createFailed) =>
    /\ Len(out) = 1
    /\ out[1].ev = "room_message"
    /\ out[1].to = Members(last.task.room)
    /\ DOMAIN out[1].data = {"from", "fromUsername", "room"}
    /\ out[1].data.from = last.task.from
    /\ out[1].data.fromUsername = last.task.claimed
    /\ out[1].data.room = last.task.room

\* A chat whose create failed reached a room that has members
C8_Witness ==
  /\ last.op = "relay_chat"
  /\ last.task.createFailed
  /\ Len(out) = 1
  /\ out[1].to # {}

\* C9: when create succeeded and a later room-summary call fails, the
\* created message is still in the collection and the 'room_message' that
\* is emitted carries it.
C9_SummaryFailureKeepsMessage ==
  (last.op = "relay_chat" /\ last.task.summaryFailed) =>
    /\ last.task.saved # NoDoc
    /\ last.task.saved._id \in 1..Len(dbMessages)
    /\ dbMessages[last.task.saved._id] = last.task.saved
    /\ Len(out) = 1
    /\ out[1].ev = "room_message"
    /\ out[1].to = Members(last.task.room)
    /\ "message" \in DOMAIN out[1].data
    /\ out[1].data.message._id = "oid" \o ToString(last.task.saved._id)
    /\ out[1].data.message.content = last.task.message.v.data.message
    /\ out[1].data.message.room_id = last.task.message.v.roomId

\* The summary step of a chat failed and the chat reached a room with members
C9_Witness ==
  /\ last.op = "relay_chat"
  /\ last.task.summaryFailed
  /\ Len(dbMessages) >= 1
  /\ Len(out) = 1
  /\ out[1].to # {}

\* C10: the room summary's last-message timestamp never decreases,
\* whatever the order in which the persistence steps of two chats complete.
C10_SummaryMonotonic ==
  (last.op = "update_ok" /\ last.before # NoDoc) =>
    /\ dbRooms[last.room] # NoDoc
    /\ dbRooms[last.room].last_message_at >= last.before.last_message_at

\* The room a relayed room_message names
RelayedRoom ==
  IF last.op = "relay_chat" THEN last.task.room ELSE last.data.room

\* C11: a room_message, plain or "chat", is emitted once, to exactly the
\* current members of the room it names; the sending connection is among
\* the receivers when it is a member of that room.
C11_RoomFanOutIncludesSender ==
  last.op \in {"room_message", "relay_chat"} =>
    /\ Len(out) = 1
    /\ out[1].ev = "room_message"
    /\ out[1].to = Members(RelayedRoom)
    /\ (last.sock \in Members(RelayedRoom) => last.sock \in out[1].to)

\* A plain string sent by a member of a two-member room came back to it
C11_Witness ==
  /\ last.op = "room_message"
  /\ last.data.message.t = "string"
  /\ last.sock \in Members(last.data.room)
  /\ Len(out) = 1
  /\ last.sock \in out[1].to
  /\ Cardinality(out[1].to) = 2

\* Sum of the sizes of the connection sets of all sessions
RECURSIVE TotalConnections(_)
TotalConnections(sessions) ==
  IF Len(sessions) = 0 THEN 0
  ELSE Len(sessions[1].socketIds) + TotalConnections(Tail(sessions))

\* C12: a heartbeat emitted in any reachable state carries connectedClients
\* equal to the length of the unique presence list and totalSockets equal
\* to the sum of the sizes of the sessions' connection sets; so does the
\* heartbeat that was emitted last.
C12_HeartbeatCounts ==
  LET now == sendHeartbeat(St).out[1].data IN
  /\ now.connectedClients = Len(getUniqueUserList(userSessions))
  /\ now.totalSockets = TotalConnections(userSessions)
  /\ last.op = "heartbeat" =>
       /\ Len(out) = 1
       /\ out[1].ev = "heartbeat"
       /\ out[1].to = connected
       /\ out[1].data = now

\* A heartbeat went out while one user had two connections and another one
C12_Witness ==
  /\ last.op = "heartbeat"
  /\ Len(out) = 1
  /\ out[1].data.connectedClients = 2
  /\ out[1].data.totalSockets = 3

\* C13: every "chat" room_message the handler has taken up is eventually
\* broadcast as 'room_message', whether or not the repository calls it
\* started ever complete.
C13_RelayNotGatedOnStorage ==
  \A k \in 1..MaxRelayChats :
    (\E i \in 1..Len(tasks) : tasks[i].id = k)
      ~> (last.op = "relay_chat" /\ last.task.id = k)

\* C14: a "chat" whose sender has disconnected before the handler resumes
\* is still broadcast, once, to the members the room has then, with the
\* sender's connection id and the username it had when the event arrived;
\* and unless create itself failed the message is in the collection and in
\* the broadcast.
C14_DisconnectDoesNotAbortChat ==
  (last.op = "relay_chat" /\ last.sock \notin connected) =>
    /\ Len(out) = 1
    /\ out[1].ev = "room_message"
    /\ out[1].to = Members(last.task.room)
    /\ out[1].data.from = last.task.from
    /\ out[1].data.fromUsername = last.task.claimed
    /\ (last.task.creates = 1 /\ ~last.task.createFailed) =>
         /\ last.task.saved # NoDoc
         /\ last.task.saved._id \in 1..Len(dbMessages)
         /\ dbMessages[last.task.saved._id] = last.task.saved
         /\ "message" \in DOMAIN out[1].data
         /\ out[1].data.message._id = "oid" \o ToString(last.task.saved._id)

\* The sender is gone, its message was created and reached the other member
C14_Witness ==
  /\ last.op = "relay_chat"
  /\ last.sock \notin connected
  /\ last.task.saved # NoDoc
  /\ Len(dbMessages) = 1
  /\ Len(out) = 1
  /\ out[1].to # {}

\* C15: after a message, private_message, file_share, status_update or
\* room_message event, whatever its payload, the process is still running
\* and the sessions of the usernames other than the sender's are as they
\* were when the listener was entered.
C15_HandlerFailureContained ==
  (last.op \in {"message", "private_message", "file_share", "status_update",
                "room_message"} /\ "sessions" \in DOMAIN last) =>
    /\ ~exited
    /\ \A i \in 1..Len(last.sessions) :
         last.sessions[i].username # last.username =>
           last.sessions[i] \in SeqRange(userSessions)

\* The connection has no registered username, or its username no session
LookupMiss(c) ==
  \/ ~Has(socketToUsername, c)
  \/ socketToUsername[c] \notin SessionNames(userSessions)

\* C16: a status_update or user_info_update handled for a connection whose
\* lookup misses changes nothing in the registry and emits nothing.
C16_UpdateAfterTeardownIsNoOp ==
  [][(/\ last'.op \in {"status_update", "user_info_update"}
      /\ "sessions" \notin DOMAIN last'
      /\ nUpdates' # nUpdates
      /\ LookupMiss(last'.sock))
     => /\ UNCHANGED regVars
        /\ out' = <<>>]_vars

\* A status_update of a closed connection was handled while another
\* connection is online
C16_Witness ==
  /\ last.op = "status_update"
  /\ "sessions" \notin DOMAIN last
  /\ last.sock \notin connected
  /\ LookupMiss(last.sock)
  /\ Len(userSessions) >= 1
  /\ out = <<>>

\* C17: no session has status "offline", and no 'user_list' or
\* 'user_status_changed' that is emitted carries it.
C17_OfflineUnreachable ==
  /\ \A i \in 1..Len(userSessions) : userSessions[i].status # "offline"
  /\ \A j \in 1..Len(out) :
       /\ out[j].ev = "user_status_changed" => out[j].data.status # "offline"
       /\ out[j].ev = "user_list" =>
            \A k \in 1..Len(out[j].data.users) :
              out[j].data.users[k].status # "offline"

\* C18: every live connection is registered under the username its
\* handshake claimed: in socketToUsername, in its own record (which also
\* keeps its socket id) and in the session of that username.
C18_UsernameImmutable ==
  \A c \in connected :
    /\ Has(socketToUsername, c)
    /\ socketToUsername[c] = Claimed(c)
    /\ Has(onlineUsers, c)
    /\ onlineUsers[c].username = Claimed(c)
    /\ onlineUsers[c].socketId = c
    /\ Claimed(c) \in SessionNames(userSessions)
    /\ c \in SeqRange(SessionOf(Claimed(c)).socketIds)

\* A user_info_update naming another username and socket id was handled
C18_Witness ==
  /\ last.op = "user_info_update"
  /\ last.sock \in connected
  /\ last.data.username = "mallory"
  /\ last.data.socketId = "s0"
  /\ Len(out) = 1

\* C19: join_room(R) by connection c puts R into c's room set, emits
\* 'user_joined' with c's username to the members of R other than c, and
\* then 'joined_room' for R to c alone; nothing else is emitted.
C19_JoinNotifiesOthersAcksJoiner ==
  last.op = "join_room" =>
    /\ last.room \in rooms[last.sock]
    /\ out = <<[ev |-> "user_joined",
                to |-> Members(last.room) \ {last.sock},
                data |-> [socketId |-> last.sock,
                          username |-> Claimed(last.sock),
                          room |-> last.room]],
               [ev |-> "joined_room", to |-> {last.sock},
                data |-> [room |-> last.room]]>>

\* The third connection joined a room that had two members
C19_Witness ==
  /\ last.op = "join_room"
  /\ Len(out) = 2
  /\ Cardinality(out[1].to) = 2
  /\ last.sock \notin out[1].to
  /\ out[2].to = {last.sock}

\* C20: after a disconnect or a leave, a 'user_left_room' has gone to the
\* remaining members of every named room the connection was in, and the
\* connection is in no named room.
C20_TeardownLeavesRoomsAndNotifies ==
  last.op \in {"disconnect", "leave"} =>
    /\ rooms[last.sock] \ {last.sock} = {}
    /\ \A r \in last.rooms : \A member \in Members(r) :
         \E j \in 1..Len(out) :
           /\ out[j].ev = "user_left_room"
           /\ out[j].data.room = r
           /\ out[j].data.socketId = last.sock
           /\ member \in out[j].to

\* A handshake value that was supplied: present and not the empty string
Supplied(v) == v # Undefined /\ v # ""

\* C21: no connection is refused; every connection is registered, in the
\* index, in its own record and in a session, under a non-empty username:
\* the declared name (auth.username, else userInfo.username) when one is
\* supplied, and otherwise "User " followed by the connection id.
C21_GatewayFailsOpen ==
  /\ last.op # "connect_refused"
  /\ last.op = "connect" =>
       LET c == last.sock
           expected == IF Supplied(last.auth.username) THEN last.auth.username
                       ELSE IF Supplied(last.auth.userInfoUsername)
                            THEN last.auth.userInfoUsername
                            ELSE "User " \o c IN
       /\ c \in connected
       /\ expected # "" /\ expected # Undefined
       /\ Has(socketToUsername, c) /\ socketToUsername[c] = expected
       /\ Has(onlineUsers, c) /\ onlineUsers[c].username = expected
       /\ expected \in SessionNames(userSessions)
       /\ c \in SeqRange(SessionOf(expected).socketIds)

\* A connection without token and with an empty declared name was accepted
C21_Witness ==
  /\ last.op = "connect"
  /\ last.auth.token = Undefined
  /\ last.auth.username = ""
  /\ last.auth.userInfoUsername = Undefined
  /\ last.sock \in connected
  /\ socketToUsername[last.sock] = "User " \o last.sock

\* C22: in every reachable registry and for every connection id c,
\* removeSocketFromSession(c) returns true exactly when c is the only
\* connection of its user's session, and then that session is gone; when c
\* has a session with other connections only c is taken out; when c is
\* unknown the sessions are unchanged; and a second removal of c, with or
\* without its index entry, returns false and changes nothing.
C22_RemoveReturnsTrueOnLastOnly ==
  \A c \in SocketIds :
    LET r == removeSocketFromSession(userSessions, socketToUsername, c)
        known == /\ Has(socketToUsername, c)
                 /\ socketToUsername[c] \in SessionNames(userSessions)
        wasLast == known /\ SessionOf(socketToUsername[c]).socketIds = <<c>>
        again == removeSocketFromSession(r.sessions, socketToUsername, c)
        againGone == removeSocketFromSession(r.sessions,
                                             MapDelete(socketToUsername, c), c)
    IN /\ r.ret = wasLast
       /\ wasLast =>
            /\ socketToUsername[c] \notin SessionNames(r.sessions)
            /\ Len(r.sessions) = Len(userSessions) - 1
       /\ (known /\ ~wasLast) =>
            /\ Len(r.sessions) = Len(userSessions)
            /\ \A i \in 1..Len(userSessions) :
                 r.sessions[i] =
                   [userSessions[i] EXCEPT !.socketIds = SeqRemove(@, c)]
       /\ ~known => r.sessions = userSessions
       /\ ~again.ret /\ again.sessions = r.sessions
       /\ ~againGone.ret /\ againGone.sessions = r.sessions

\* A leave, which removes its connection twice, took the only connection
\* of one user while another user has two
C22_Witness ==
  /\ last.op = "leave"
  /\ last.n = 1
  /\ ~Has(socketToUsername, last.sock)
  /\ \E i \in 1..Len(userSessions) : Len(userSessions[i].socketIds) = 2

\* C23: a connect for a username that already has a session appends the
\* connection id to the session's connection ids, replaces the custom
\* status only when the handshake supplies one, and leaves the session's
\* status as it was.
C23_AdditionalConnectionKeepsStatus ==
  (last.op = "connect" /\ last.session # NoDoc) =>
    /\ last.username \in SessionNames(userSessions)
    /\ SessionOf(last.username) =
         [last.session EXCEPT
            !.socketIds = Append(@, last.sock),
            !.customStatus = IF Truthy(last.auth.customStatus)
                             THEN last.auth.customStatus ELSE @]
    /\ SessionOf(last.username).status = last.session.status

\* A user who is away opened a second connection
C23_Witness ==
  /\ last.op = "connect"
  /\ last.session # NoDoc
  /\ last.session.status = "away"
  /\ Len(SessionOf(last.username).socketIds) = 2
  /\ SessionOf(last.username).status = "away"

\* C24: a step that creates a session creates it with status online; a
\* status_update of a live connection sets the status of its user's
\* session to the requested value and emits 'user_status_changed' and then
\* 'user_list', both to all connections; and a session goes away only in
\* the disconnect or leave of the last connection of its user.
C24_StatusLifecycle ==
  [][/\ \A u \in SessionNames(userSessions') \ SessionNames(userSessions) :
          /\ last'.op = "connect"
          /\ last'.username = u
          /\ userSessions'[SessionIdx(userSessions', u)].status = "online"
     /\ (/\ nUpdates' # nUpdates
         /\ last'.op = "status_update"
         /\ last'.sock \in connected)
        => LET u == Claimed(last'.sock) IN
           /\ u \in SessionNames(userSessions')
           /\ userSessions'[SessionIdx(userSessions', u)].status
                = last'.data.status
           /\ Len(out') = 2
           /\ out'[1].ev = "user_status_changed"
           /\ out'[1].to = connected'
           /\ out'[1].data.username = u
           /\ out'[1].data.status = last'.data.status
           /\ out'[2] = [ev |-> "user_list", to |-> connected',
                         data |-> [users |-> getUniqueUserList(userSessions')]]
     /\ \A u \in SessionNames(userSessions) \ SessionNames(userSessions') :
          /\ last'.op \in {"disconnect", "leave"}
          /\ last'.username = u
          /\ last'.n = 1]_vars

\* The second connection of a user set the shared status to busy
C24_Witness ==
  /\ last.op = "status_update"
  /\ last.sock = "s2"
  /\ last.sock \in connected
  /\ last.data.status = "busy"
  /\ Len(SessionOf(Claimed("s2")).socketIds) = 2
  /\ SessionOf(Claimed("s2")).status = "busy"
  /\ Len(out) = 2

\* C25: a "chat" whose create succeeded and none of whose repository
\* calls failed has issued one updateOne on the room summary, and an
\* updateOne that completes leaves the summary of the message's room id
\* with the text, sent timestamp and sender of that message.
C25_SummaryUpdatedAfterCreate ==
  /\ (/\ last.op = "relay_chat"
      /\ last.task.saved # NoDoc
      /\ ~last.task.createFailed
      /\ ~last.task.summaryFailed) => last.task.updates = 1
  /\ (last.op = "update_ok" /\ last.before # NoDoc) =>
       \E i \in 1..Len(tasks) :
         /\ tasks[i].id = last.id
         /\ dbRooms[tasks[i].saved.room_id] =
              [last_message |-> tasks[i].saved.content,
               last_message_at |-> tasks[i].saved.sent_at,
               last_message_sender |-> tasks[i].saved.sender]

\* Connections are numbered in the order they were accepted
SockNum(c) == CHOOSE n \in 1..MaxSockets : Sid(n) = c

\* C26: the representative connection id of every record of the unique
\* presence list is a live connection of that user, and the one accepted
\* first among them; and a snapshot sent on get_user_list is the list a
\* snapshot taken right after it gives, record for record.
C26_RepresentativeIsEarliest ==
  LET list == getUniqueUserList(userSessions) IN
  /\ \A i \in 1..Len(list) :
       /\ list[i].socketId \in connected
       /\ Claimed(list[i].socketId) = list[i].username
       /\ \A c \in connected :
            Claimed(c) = list[i].username =>
              SockNum(list[i].socketId) <= SockNum(c)
  /\ last.op = "get_user_list" =>
       /\ Len(out) = 1
       /\ out[1].data.users = list

\* The first of three connections of a user is gone: the second stands for it
C26_Witness ==
  /\ last.op = "get_user_list"
  /\ connected = {"s2", "s3"}
  /\ Claimed("s2") = Claimed("s3")
  /\ Len(out) = 1
  /\ Len(out[1].data.users) = 1
  /\ out[1].data.users[1].socketId = "s2"

\* C27: a connection that has just been accepted is in its own room only,
\* whatever rooms other connections of its username are or were in, and
\* every 'room_message' goes only to connections that have joined the
\* room it names.
C27_MembershipNotCarriedOver ==
  /\ last.op = "connect" => rooms[last.sock] = {last.sock}
  /\ \A j \in 1..Len(out) :
       out[j].ev = "room_message" =>
         \A s \in out[j].to : out[j].data.room \in rooms[s]

\* A room_message reached the connection of a user that had joined the
\* room and not the same user's other connection, which had not
C27_Witness ==
  /\ last.op = "room_message"
  /\ connected = {"s1", "s2"}
  /\ Claimed("s1") = Claimed("s2")
  /\ rooms["s2"] = {"s2"}
  /\ Len(out) = 1
  /\ out[1].to = {"s1"}

\* C28: a heartbeat tick changes nothing in the Session Registry, the
\* connection index, the room memberships, the set of open connections,
\* the pending chats or the collections; it emits one 'heartbeat', to all
\* connections.
C28_HeartbeatObservesOnly ==
  [][last'.op = "heartbeat" =>
       /\ UNCHANGED <<regVars, handshake, tasks, dbVars, started, exited>>
       /\ Len(out') = 1
       /\ out'[1].ev = "heartbeat"
       /\ out'[1].to = connected]_vars

\* A tick while three connections are open and one of them is in a room
C28_Witness ==
  /\ last.op = "heartbeat"
  /\ Cardinality(connected) = 3
  /\ \E c \in connected : rooms[c] # {c}
  /\ Len(out) = 1
  /\ out[1].to = connected

\* Connections accepted so far
Accepted == {Sid(n) : n \in 1..(nextId - 1)}

\* C30: the handler of a connect emits 'welcome' first, once, to the new
\* connection alone and with its connection id; no other handler emits a
\* 'welcome'; and nothing is ever sent to a connection that has not been
\* accepted yet.  So each connection gets one 'welcome', before anything
\* else.
C30_WelcomeOnceAndFirst ==
  /\ \A j \in 1..Len(out) : out[j].to \subseteq Accepted
  /\ last.op = "connect" =>
       /\ Len(out) >= 1
       /\ out[1] = [ev |-> "welcome", to |-> {last.sock},
                    data |-> [socketId |-> last.sock]]
       /\ \A j \in 2..Len(out) : out[j].ev # "welcome"
       /\ \A j \in 1..Len(out) : \A s \in out[j].to :
            s \in connected \ {last.sock} => out[j].ev # "welcome"
  /\ last.op # "connect" =>
       \A j \in 1..Len(out) : out[j].ev # "welcome"

\* The third connection was welcomed before it got the lists the others got
C30_Witness ==
  /\ last.op = "connect"
  /\ last.sock = "s3"
  /\ Cardinality(connected) = 3
  /\ out[1].ev = "welcome"
  /\ out[1].to = {"s3"}
  /\ \E j \in 2..Len(out) : out[j].to = connected

\* C29: join_room and room_message, plain or "chat", up to and including
\* the relay, leave userSessions, socketToUsername and onlineUsers as they
\* were; status_update and user_info_update leave every connection's room
\* set as it was.
C29_RoomsAndRegistryIndependent ==
  [][/\ last'.op \in {"join_room", "room_message", "room_message_chat",
                       "relay_chat"}
          => UNCHANGED <<userSessions, socketToUsername, onlineUsers>>
     /\ last'.op \in {"status_update", "user_info_update"}
          => UNCHANGED rooms]_vars

\* A connection that is away and in a room: it updated its presence, then
\* joined
C29_Witness ==
  /\ last.op = "join_room"
  /\ "general" \in rooms[last.sock]
  /\ Has(onlineUsers, last.sock)
  /\ onlineUsers[last.sock].status = "away"
  /\ Len(out) >= 1

\* C31: a private_message with target connection id t is delivered to the
\* connection with id t and to no other, whatever rooms the connections
\* have joined.  Stated for a message that one connection sends to another.
C31_PrivateOnlyToTarget ==
  /\ last.op = "private_message" /\ last.data \notin NoPayload
  /\ last.data.v.targetSocketId # last.sock
  =>
    \A j \in 1..Len(out) :
      out[j].ev = "private_message" =>
        out[j].to \subseteq {last.data.v.targetSocketId}

\* C32: the 'room_message' broadcasts of a room are emitted in the order
\* the events were received: when a broadcast is emitted, no event of that
\* room that was received earlier is still waiting for its own.  The chats
\* are numbered as they are received; a room_message that is relayed at
\* once is later than every chat that waits.
C32_BroadcastsInArrivalOrder ==
  /\ last.op = "relay_chat" =>
       \A i \in 1..Len(tasks) :
         tasks[i].room = last.task.room => tasks[i].id > last.task.id
  /\ last.op = "room_message" /\ "room" \in DOMAIN last.data =>
       \A i \in 1..Len(tasks) : tasks[i].room # last.data.room

\* C33: the broadcast of a "chat" goes to the members the room has when the
\* handler resumes after persistence, whatever they were when the event
\* arrived: who joined meanwhile is included, who left or disconnected is
\* not.
C33_RecipientsAtCompletion ==
  last.op = "relay_chat" =>
    \A j \in 1..Len(out) :
      out[j].ev = "room_message" =>
        /\ out[j].to = {s \in connected : last.task.room \in rooms[s]}
        /\ \A s \in last.task.membersThen \ connected : s \notin out[j].to

\* The sender was the only member when it sent the chat; the other
\* connection joined and the sender disconnected before the insert completed
C33_Witness ==
  /\ last.op = "relay_chat"
  /\ last.task.saved # NoDoc
  /\ last.task.membersThen = {last.sock}
  /\ last.sock \notin connected
  /\ Len(out) = 1
  /\ out[1].to # {}
  /\ out[1].to \cap last.task.membersThen = {}

\* Positions in o of the 'user_list' events addressed to connection c
ListsTo(o, c) == {j \in 1..Len(o) : o[j].ev = "user_list" /\ c \in o[j].to}

\* What c holds after the events o: the last list among them
LastListTo(o, c) ==
  LET js == ListsTo(o, c) IN
  o[CHOOSE j \in js : \A k \in js : k <= j].data.users

\* C34: the last 'user_list' a live connection got is the current unique
\* presence list.  In every step, a connection that is live afterwards and
\* is new, or sees the list change, or is sent any list at all, is sent a
\* list, and the last one it is sent is the list as it is after the step.
C34_UserListCurrent ==
  [][LET now == getUniqueUserList(userSessions')
         changed == now # getUniqueUserList(userSessions) IN
     \A c \in connected' :
       (\/ c \notin connected
        \/ changed
        \/ ListsTo(out', c) # {})
       => /\ ListsTo(out', c) # {}
          /\ LastListTo(out', c) = now]_vars

\* The user's first connection closed while its second and another user's
\* stay: the representative changed and both remaining connections were
\* sent the new list
C34_Witness ==
  /\ last.op = "disconnect"
  /\ last.n = 2
  /\ Cardinality(connected) >= 1
  /\ \A c \in connected :
       /\ ListsTo(out, c) # {}
       /\ LastListTo(out, c) = getUniqueUserList(userSessions)
  /\ \E i \in 1..Len(userSessions) :
       /\ userSessions[i].username = last.username
       /\ SockNum(userSessions[i].socketIds[1]) > SockNum(last.sock)

\* C35: the record of every live connection agrees with the session of its
\* user on status and custom status.
C35_RecordAgreesWithSession ==
  \A c \in connected :
    Has(onlineUsers, c) /\ Has(socketToUsername, c) =>
      LET i == SessionIdx(userSessions, socketToUsername[c]) IN
      i # 0 =>
        /\ onlineUsers[c].status = userSessions[i].status
        /\ onlineUsers[c].customStatus = userSessions[i].customStatus

\* C36: every 'user_left_room' that a disconnect or a leave emits carries
\* the username the connection claimed at its handshake.  Stated for the
\* notifications that reach a remaining member.
C36_LeftRoomCarriesUsername ==
  last.op \in {"disconnect", "leave"} =>
    \A j \in 1..Len(out) :
      out[j].ev = "user_left_room" /\ out[j].to # {} =>
        out[j].data.username = last.username

\* C37: after stopHeartbeat no 'heartbeat' is emitted, however often
\* startHeartbeat and stopHeartbeat were called before.  heartbeatInterval
\* is null exactly when no startHeartbeat has followed the last
\* stopHeartbeat (or none was called at all), so no tick reaches a
\* connection while it is null.
C37_NoHeartbeatAfterStop ==
  (last.op = "heartbeat" /\ \E j \in 1..Len(out) : out[j].to # {})
    => heartbeatInterval # NoTimer

\* C38: when create succeeded for a "chat", the broadcast carries as message
\* the record create returned, in its JSON form: the id of the document in
\* the collection, its room id, sender and content, status "sent", and the
\* tag action "chat"; it is not the payload the client sent.
C38_BroadcastCarriesRecord ==
  (last.op = "relay_chat" /\ last.task.creates = 1 /\ ~last.task.createFailed)
  =>
    /\ Len(out) = 1
    /\ out[1].ev = "room_message"
    /\ "message" \in DOMAIN out[1].data
    /\ LET msg == out[1].data.message IN
       /\ msg # last.task.message.v
       /\ msg.action = "chat"
       /\ msg.status = "sent"
       /\ \E id \in 1..Len(dbMessages) :
            /\ dbMessages[id]._id = id
            /\ msg._id = "oid" \o ToString(id)
            /\ msg.room_id = dbMessages[id].room_id
            /\ msg.sender = dbMessages[id].sender
            /\ msg.content = dbMessages[id].content
            /\ msg.message_type = dbMessages[id].message_type
       /\ msg.room_id = last.task.message.v.roomId
       /\ msg.sender = last.task.message.v.senderId
       /\ msg.content = last.task.message.v.data.message

\* A chat was inserted, the summary updated, and the record was broadcast
\* to a member of the room
C38_Witness ==
  /\ last.op = "relay_chat"
  /\ last.task.creates = 1
  /\ last.task.updates = 1
  /\ ~last.task.summaryFailed
  /\ Len(dbMessages) = 1
  /\ Len(out) = 1
  /\ out[1].to # {}
  /\ out[1].data.message._id = "oid1"

\* C39: the customStatus of the 'user_status_changed' that a status_update
\* emits is the customStatus the session has after the update.  Stated for
\* a session that has a custom status then.
C39_EventCarriesStoredCustomStatus ==
  last.op = "status_update" =>
    \A j \in 1..Len(out) :
      out[j].ev = "user_status_changed" =>
        \A i \in 1..Len(userSessions) :
          (/\ userSessions[i].username = out[j].data.username
           /\ Truthy(userSessions[i].customStatus))
          => out[j].data.customStatus = userSessions[i].customStatus
====
